---- MODULE Spec2Model ----
(***************************************************************************)
(* InputCommon::InputEngine (src/input_common/input_engine.cpp): the       *)
(* per-device state table, the listener registry and the mutation /        *)
(* notification / mapping-detection protocol.                              *)
(*                                                                         *)
(* Numbers.  f32 axis values are written in eighths (4 is 0.5f, 8 is       *)
(* 1.0f): eighths are exact in f32, so value - stored is computed without  *)
(* rounding.  Motion components are written in tenths (15 is 1.5f, 6 is    *)
(* 0.6f); they are only compared, never added.  A hat mask is a u8.        *)
(***************************************************************************)
EXTENDS Integers, Sequences, FiniteSets, TLC

VARIABLES
    controller_list,    \* PadIdentifier -> ControllerData (the table, under mutex)
    configuring,        \* engine mode
    callback_list,      \* key -> InputIdentifier (under mutex_callback)
    last_callback_key,  \* next key SetCallback hands out
    mapping_callback,   \* the mapping observer; NoObserver when on_data is empty
    last,               \* the call that ran last: operation and arguments
    ret,                \* how it ended: outcome and returned value
    notified,           \* key -> number of on_change() invocations made by it
    events,             \* the MappingData handed to on_data by it, in order
    issued,             \* the keys SetCallback has returned, in the order issued
    script,             \* the caller's place in the end-to-end scenario
    mutex_callback,     \* the thread inside std::lock_guard{mutex_callback}, or 0
    threads,            \* concurrent callers: where each one is in its call
    mutex               \* the thread inside std::lock_guard{mutex}, or 0

vars == <<controller_list, configuring, callback_list, last_callback_key,
          mapping_callback, last, ret, notified, events, issued, script,
          mutex_callback, threads, mutex>>

(***************************************************************************)
(* Bounds of the model and the inputs the calls are drawn from.            *)
(***************************************************************************)
\* Input entries (buttons, hats, axes, motions) the table may hold in total.
MaxEntries == 1
\* Keys SetCallback may hand out before the model stops subscribing.
MaxKeys == 3
\* The same, where the subscriptions listen to Set* calls.
MaxListeners == 1
\* Threads that call the registry concurrently.
NumThreads == 2

\* Two devices that differ in one field of the identity only.
PadA == [guid |-> 1, pad |-> 0, port |-> 0]
PadB == [guid |-> 1, pad |-> 0, port |-> 1]
Pads == {PadA, PadB}
Indexes == {0, 1}
ButtonValues == BOOLEAN
HatValues == {0, 5, 128, 255}
HatDirections == {1, 4, 128, 3}
AxisValues == {-4, 0, 1, 5}
BatteryLevels == {"Empty", "Charging"}
ZeroMotion ==
    [gyro_x |-> 0, gyro_y |-> 0, gyro_z |-> 0,
     accel_x |-> 0, accel_y |-> 0, accel_z |-> 0]
MotionValues ==
    {ZeroMotion,
     [ZeroMotion EXCEPT !.accel_z = -20],
     [ZeroMotion EXCEPT !.gyro_y = 6, !.accel_x = 15]}
EngineInputTypes == {"Button", "HatButton", "Analog", "Motion", "Battery"}
NoObserver == 0
Observers == {1, 2}
\* Subscriptions the model registers: every kind, on PadA index 0, with and
\* without a notifier.  Calls range over both pads and both indexes.
Subscriptions ==
    [identifier : {PadA}, type : EngineInputTypes, index : {0},
     on_change : BOOLEAN]

(***************************************************************************)
(* Containers.                                                             *)
(***************************************************************************)
EmptyMap == [x \in {} |-> 0]

\* std::unordered_map::try_emplace: inserts only when the key is absent.
try_emplace(m, k, v) ==
    IF k \in DOMAIN m THEN m
    ELSE [x \in DOMAIN m \cup {k} |-> IF x = k THEN v ELSE m[x]]

\* std::unordered_map::insert_or_assign.
insert_or_assign(m, k, v) ==
    [x \in DOMAIN m \cup {k} |-> IF x = k THEN v ELSE m[x]]

\* clear() in place of erase(iterator).
erase_Clear(m, k) == EmptyMap

\* std::unordered_map::erase.
erase(m, k) == [x \in DOMAIN m \ {k} |-> m[x]]

\* A freshly emplaced ControllerData; the battery member's initial value is
\* not set by this file, so any level is allowed.
ControllerData(battery) ==
    [buttons |-> EmptyMap, hat_buttons |-> EmptyMap, axes |-> EmptyMap,
     motions |-> EmptyMap, battery |-> battery]

\* u8 & u8.
RECURSIVE BitAnd(_, _)
BitAnd(a, b) ==
    IF a = 0 \/ b = 0 THEN 0
    ELSE (IF a % 2 = 1 /\ b % 2 = 1 THEN 1 ELSE 0)
         + 2 * BitAnd(a \div 2, b \div 2)

\* std::abs.
Abs(x) == IF x < 0 THEN -x ELSE x

\* What a call hands back: it returned (with a value) or it threw.
Ok(v) == [outcome |-> "ok", value |-> v]
Void == [outcome |-> "ok"]
OutOfRange == [outcome |-> "out_of_range"]

EntryCount(cl) ==
    LET n(c) == Cardinality(DOMAIN c.buttons) + Cardinality(DOMAIN c.hat_buttons)
                + Cardinality(DOMAIN c.axes) + Cardinality(DOMAIN c.motions)
        RECURSIVE Sum(_)
        Sum(S) == IF S = {} THEN 0
                  ELSE LET p == CHOOSE p \in S : TRUE
                       IN n(cl[p]) + Sum(S \ {p})
    IN Sum(DOMAIN cl)

(***************************************************************************)
(* The table operations, as functions of the table.  A PreSet* or Set* on  *)
(* an identifier that is not in controller_list throws std::out_of_range   *)
(* from controller_list.at(); the table is then left as it was.            *)
(***************************************************************************)
PreSetControllerIn(cl, identifier, battery) ==
    try_emplace(cl, identifier, ControllerData(battery))

PreSetButtonIn(cl, identifier, button) ==
    [cl EXCEPT ![identifier].buttons = try_emplace(@, button, FALSE)]

PreSetHatButtonIn(cl, identifier, button) ==
    [cl EXCEPT ![identifier].hat_buttons = try_emplace(@, button, 0)]

\* PreSetAxis with insert_or_assign in place of try_emplace.
PreSetAxisIn_Assign(cl, identifier, axis) ==
    [cl EXCEPT ![identifier].axes = insert_or_assign(@, axis, 0)]

PreSetAxisIn(cl, identifier, axis) ==
    [cl EXCEPT ![identifier].axes = try_emplace(@, axis, 0)]

PreSetMotionIn(cl, identifier, motion) ==
    [cl EXCEPT ![identifier].motions = try_emplace(@, motion, ZeroMotion)]

\* WriteButton without the mode gate.
WriteButton_Ungated(cl, cfg, identifier, button, value) ==
    [cl EXCEPT ![identifier].buttons = insert_or_assign(@, button, value)]

\* The locked block of SetButton: the write happens only when not configuring.
WriteButton(cl, cfg, identifier, button, value) ==
    IF ~cfg
    THEN [cl EXCEPT ![identifier].buttons = insert_or_assign(@, button, value)]
    ELSE cl

\* WriteHatButton without the mode gate.
WriteHatButton_Ungated(cl, cfg, identifier, button, value) ==
    [cl EXCEPT ![identifier].hat_buttons = insert_or_assign(@, button, value)]

WriteHatButton(cl, cfg, identifier, button, value) ==
    IF ~cfg
    THEN [cl EXCEPT ![identifier].hat_buttons = insert_or_assign(@, button, value)]
    ELSE cl

\* WriteAxis without the mode gate.
WriteAxis_Ungated(cl, cfg, identifier, axis, value) ==
    [cl EXCEPT ![identifier].axes = insert_or_assign(@, axis, value)]

WriteAxis(cl, cfg, identifier, axis, value) ==
    IF ~cfg
    THEN [cl EXCEPT ![identifier].axes = insert_or_assign(@, axis, value)]
    ELSE cl

WriteBattery(cl, cfg, identifier, value) ==
    IF ~cfg THEN [cl EXCEPT ![identifier].battery = value] ELSE cl

WriteMotion(cl, cfg, identifier, motion, value) ==
    IF ~cfg
    THEN [cl EXCEPT ![identifier].motions = insert_or_assign(@, motion, value)]
    ELSE cl

GetButtonIn(cl, identifier, button) ==
    IF identifier \notin DOMAIN cl THEN Ok(FALSE)
    ELSE IF button \notin DOMAIN cl[identifier].buttons THEN Ok(FALSE)
    ELSE Ok(cl[identifier].buttons[button])

GetHatButtonIn(cl, identifier, button, direction) ==
    IF identifier \notin DOMAIN cl THEN Ok(FALSE)
    ELSE IF button \notin DOMAIN cl[identifier].hat_buttons THEN Ok(FALSE)
    ELSE Ok(BitAnd(cl[identifier].hat_buttons[button], direction) # 0)

GetAxisIn(cl, identifier, axis) ==
    IF identifier \notin DOMAIN cl THEN Ok(0)
    ELSE IF axis \notin DOMAIN cl[identifier].axes THEN Ok(0)
    ELSE Ok(cl[identifier].axes[axis])

GetBatteryIn(cl, identifier) ==
    IF identifier \notin DOMAIN cl THEN Ok("Charging")
    ELSE Ok(cl[identifier].battery)

\* controller.motions.at(motion) throws for an index that was never registered.
GetMotionIn(cl, identifier, motion) ==
    IF identifier \notin DOMAIN cl THEN Ok(ZeroMotion)
    ELSE IF motion \notin DOMAIN cl[identifier].motions THEN OutOfRange
    ELSE Ok(cl[identifier].motions[motion])

(***************************************************************************)
(* The listener scan and the mapping detection (TriggerOn*Change).  Each   *)
(* returns the table it leaves, the on_change() invocations it made and    *)
(* the MappingData it handed to the observer.                              *)
(***************************************************************************)
\* IsInputIdentifierEqual without the comparison of the device identity.
IsInputIdentifierEqual_AnyPad(input_identifier, identifier, type, index) ==
    IF input_identifier.type # type THEN FALSE
    ELSE IF input_identifier.index # index THEN FALSE
    ELSE TRUE

IsInputIdentifierEqual(input_identifier, identifier, type, index) ==
    IF input_identifier.type # type THEN FALSE
    ELSE IF input_identifier.index # index THEN FALSE
    ELSE IF input_identifier.identifier # identifier THEN FALSE
    ELSE TRUE

\* The loop over callback_list: one on_change() for each matching poller
\* that has a notifier.
ScanPollers(cbl, identifier, type, index) ==
    LET hit == {k \in DOMAIN cbl :
                  /\ IsInputIdentifierEqual(cbl[k], identifier, type, index)
                  /\ cbl[k].on_change}
    IN [k \in hit |-> 1]

\* if (!configuring || !mapping_callback.on_data) return;
MappingOff(cfg, mc) == ~cfg \/ mc = NoObserver

\* mapping_callback.on_data(MappingData{...}): the observer it reaches and
\* the data.
OnData(mc, data) == [to |-> mc, data |-> data]

EngineName == "engine"

\* TriggerOnButtonChange without the comparison against the stored value.
TriggerOnButtonChange_Always(cl, cfg, cbl, mc, identifier, button, value) ==
    LET n == ScanPollers(cbl, identifier, "Button", button)
    IN  IF MappingOff(cfg, mc)
        THEN [cl |-> cl, notified |-> n, events |-> <<>>, ret |-> Void]
        ELSE [cl |-> PreSetButtonIn(cl, identifier, button), notified |-> n,
              ret |-> Void,
              events |-> <<OnData(mc,
                  [engine |-> EngineName, pad |-> identifier,
                   type |-> "Button", index |-> button,
                   button_value |-> value])>>]

TriggerOnButtonChange(cl, cfg, cbl, mc, identifier, button, value) ==
    LET n == ScanPollers(cbl, identifier, "Button", button)
    IN  IF MappingOff(cfg, mc)
        THEN [cl |-> cl, notified |-> n, events |-> <<>>, ret |-> Void]
        ELSE IF identifier \notin DOMAIN cl
        THEN [cl |-> cl, notified |-> n, events |-> <<>>, ret |-> OutOfRange]
        ELSE LET cl2 == PreSetButtonIn(cl, identifier, button)
             IN  IF value = GetButtonIn(cl2, identifier, button).value
                 THEN [cl |-> cl2, notified |-> n, events |-> <<>>, ret |-> Void]
                 ELSE [cl |-> cl2, notified |-> n, ret |-> Void,
                       events |-> <<OnData(mc,
                           [engine |-> EngineName, pad |-> identifier,
                            type |-> "Button", index |-> button,
                            button_value |-> value])>>]

\* HatLoop stopping before the last direction bit (index < 0x80).
RECURSIVE HatLoop_Short(_, _, _, _, _, _)
HatLoop_Short(cl, mc, identifier, button, value, index) ==
    IF ~(index < 128) THEN <<>>
    ELSE LET button_value == BitAnd(value, index) # 0
             rest == HatLoop_Short(cl, mc, identifier, button, value, index * 2)
         IN  IF button_value = GetHatButtonIn(cl, identifier, button, index % 256).value
             THEN rest
             ELSE <<OnData(mc,
                      [engine |-> EngineName, pad |-> identifier,
                       type |-> "HatButton", index |-> button,
                       hat_direction |-> index % 256])>> \o rest

\* The loop body for one direction bit, then the rest of the loop:
\* for (index = 1; index < 0xff; index <<= 1).
RECURSIVE HatLoop(_, _, _, _, _, _)
HatLoop(cl, mc, identifier, button, value, index) ==
    IF ~(index < 255) THEN <<>>
    ELSE LET button_value == BitAnd(value, index) # 0
             rest == HatLoop(cl, mc, identifier, button, value, index * 2)
         IN  IF button_value = GetHatButtonIn(cl, identifier, button, index % 256).value
             THEN rest
             ELSE <<OnData(mc,
                      [engine |-> EngineName, pad |-> identifier,
                       type |-> "HatButton", index |-> button,
                       hat_direction |-> index % 256])>> \o rest

TriggerOnHatButtonChange(cl, cfg, cbl, mc, identifier, button, value) ==
    LET n == ScanPollers(cbl, identifier, "HatButton", button)
    IN  IF MappingOff(cfg, mc)
        THEN [cl |-> cl, notified |-> n, events |-> <<>>, ret |-> Void]
        ELSE [cl |-> cl, notified |-> n, ret |-> Void,
              events |-> HatLoop(cl, mc, identifier, button, value, 1)]

\* 0.5f in eighths.
AxisThreshold == 4

\* TriggerOnAxisChange returning also at a difference equal to the threshold.
TriggerOnAxisChange_Strict(cl, cfg, cbl, mc, identifier, axis, value) ==
    LET n == ScanPollers(cbl, identifier, "Analog", axis)
    IN  IF MappingOff(cfg, mc)
        THEN [cl |-> cl, notified |-> n, events |-> <<>>, ret |-> Void]
        ELSE IF Abs(value - GetAxisIn(cl, identifier, axis).value) <= AxisThreshold
        THEN [cl |-> cl, notified |-> n, events |-> <<>>, ret |-> Void]
        ELSE [cl |-> cl, notified |-> n, ret |-> Void,
              events |-> <<OnData(mc,
                  [engine |-> EngineName, pad |-> identifier,
                   type |-> "Analog", index |-> axis,
                   axis_value |-> value])>>]

TriggerOnAxisChange(cl, cfg, cbl, mc, identifier, axis, value) ==
    LET n == ScanPollers(cbl, identifier, "Analog", axis)
    IN  IF MappingOff(cfg, mc)
        THEN [cl |-> cl, notified |-> n, events |-> <<>>, ret |-> Void]
        ELSE IF Abs(value - GetAxisIn(cl, identifier, axis).value) < AxisThreshold
        THEN [cl |-> cl, notified |-> n, events |-> <<>>, ret |-> Void]
        ELSE [cl |-> cl, notified |-> n, ret |-> Void,
              events |-> <<OnData(mc,
                  [engine |-> EngineName, pad |-> identifier,
                   type |-> "Analog", index |-> axis,
                   axis_value |-> value])>>]

TriggerOnBatteryChange(cl, cfg, cbl, mc, identifier, value) ==
    [cl |-> cl, notified |-> ScanPollers(cbl, identifier, "Battery", 0),
     events |-> <<>>, ret |-> Void]

\* 1.5f and 0.6f in tenths.
AccelThreshold == 15
GyroThreshold == 6

IsActive(value) ==
    \/ Abs(value.accel_x) > AccelThreshold
    \/ Abs(value.accel_y) > AccelThreshold
    \/ Abs(value.accel_z) > AccelThreshold
    \/ Abs(value.gyro_x) > GyroThreshold
    \/ Abs(value.gyro_y) > GyroThreshold
    \/ Abs(value.gyro_z) > GyroThreshold

TriggerOnMotionChange(cl, cfg, cbl, mc, identifier, motion, value) ==
    LET n == ScanPollers(cbl, identifier, "Motion", motion)
    IN  IF MappingOff(cfg, mc)
        THEN [cl |-> cl, notified |-> n, events |-> <<>>, ret |-> Void]
        ELSE IF ~IsActive(value)
        THEN [cl |-> cl, notified |-> n, events |-> <<>>, ret |-> Void]
        ELSE [cl |-> cl, notified |-> n, ret |-> Void,
              events |-> <<OnData(mc,
                  [engine |-> EngineName, pad |-> identifier,
                   type |-> "Motion", index |-> motion,
                   motion_value |-> value])>>]

(***************************************************************************)
(* The calls.  Each is one whole call of a single-threaded caller: the     *)
(* locked table block, then the listener scan and the mapping detection.   *)
(* Callbacks are recorded, they do not call back into the engine.          *)
(***************************************************************************)
Return(l, r, n, e) ==
    /\ last' = l
    /\ ret' = r
    /\ notified' = n
    /\ events' = e

Registry == <<callback_list, last_callback_key, mapping_callback>>

\* controller_list.at(identifier) returning normally for an absent device.
Throws_Silent(l) ==
    /\ Return(l, Void, EmptyMap, <<>>)
    /\ UNCHANGED <<controller_list, configuring, Registry, issued>>

\* A PreSet* or Set* whose controller_list.at(identifier) throws.
Throws(l) ==
    /\ Return(l, OutOfRange, EmptyMap, <<>>)
    /\ UNCHANGED <<controller_list, configuring, Registry, issued>>

\* A Set* that passed the table block and ran its TriggerOn*Change to `t`.
Triggered(l, t) ==
    /\ controller_list' = t.cl
    /\ Return(l, t.ret, t.notified, t.events)
    /\ UNCHANGED <<configuring, Registry, issued>>

\* `battery` is the level a freshly emplaced ControllerData holds.
PreSetController(identifier, battery) ==
    /\ controller_list' = PreSetControllerIn(controller_list, identifier, battery)
    /\ Return([op |-> "PreSetController", identifier |-> identifier],
              Void, EmptyMap, <<>>)
    /\ UNCHANGED <<configuring, Registry, issued>>

PreSet(l, identifier, cl) ==
    IF identifier \notin DOMAIN controller_list THEN Throws(l)
    ELSE /\ controller_list' = cl
         /\ Return(l, Void, EmptyMap, <<>>)
         /\ UNCHANGED <<configuring, Registry, issued>>

PreSetButton(identifier, button) ==
    PreSet([op |-> "PreSetButton", identifier |-> identifier, index |-> button],
           identifier, PreSetButtonIn(controller_list, identifier, button))

PreSetHatButton(identifier, button) ==
    PreSet([op |-> "PreSetHatButton", identifier |-> identifier, index |-> button],
           identifier, PreSetHatButtonIn(controller_list, identifier, button))

PreSetAxis(identifier, axis) ==
    PreSet([op |-> "PreSetAxis", identifier |-> identifier, index |-> axis],
           identifier, PreSetAxisIn(controller_list, identifier, axis))

PreSetMotion(identifier, motion) ==
    PreSet([op |-> "PreSetMotion", identifier |-> identifier, index |-> motion],
           identifier, PreSetMotionIn(controller_list, identifier, motion))

SetButton(identifier, button, value) ==
    LET l == [op |-> "SetButton", identifier |-> identifier, index |-> button,
              value |-> value]
    IN  IF identifier \notin DOMAIN controller_list THEN Throws(l)
        ELSE Triggered(l, TriggerOnButtonChange(
                 WriteButton(controller_list, configuring, identifier, button, value),
                 configuring, callback_list, mapping_callback,
                 identifier, button, value))

SetHatButton(identifier, button, value) ==
    LET l == [op |-> "SetHatButton", identifier |-> identifier, index |-> button,
              value |-> value]
    IN  IF identifier \notin DOMAIN controller_list THEN Throws(l)
        ELSE Triggered(l, TriggerOnHatButtonChange(
                 WriteHatButton(controller_list, configuring, identifier, button, value),
                 configuring, callback_list, mapping_callback,
                 identifier, button, value))

SetAxis(identifier, axis, value) ==
    LET l == [op |-> "SetAxis", identifier |-> identifier, index |-> axis,
              value |-> value]
    IN  IF identifier \notin DOMAIN controller_list THEN Throws(l)
        ELSE Triggered(l, TriggerOnAxisChange(
                 WriteAxis(controller_list, configuring, identifier, axis, value),
                 configuring, callback_list, mapping_callback,
                 identifier, axis, value))

SetBattery(identifier, value) ==
    LET l == [op |-> "SetBattery", identifier |-> identifier, index |-> 0,
              value |-> value]
    IN  IF identifier \notin DOMAIN controller_list THEN Throws(l)
        ELSE Triggered(l, TriggerOnBatteryChange(
                 WriteBattery(controller_list, configuring, identifier, value),
                 configuring, callback_list, mapping_callback,
                 identifier, value))

SetMotion(identifier, motion, value) ==
    LET l == [op |-> "SetMotion", identifier |-> identifier, index |-> motion,
              value |-> value]
    IN  IF identifier \notin DOMAIN controller_list THEN Throws(l)
        ELSE Triggered(l, TriggerOnMotionChange(
                 WriteMotion(controller_list, configuring, identifier, motion, value),
                 configuring, callback_list, mapping_callback,
                 identifier, motion, value))

\* A query: the table is read, nothing is written.
Query(l, r) ==
    /\ Return(l, r, EmptyMap, <<>>)
    /\ UNCHANGED <<controller_list, configuring, Registry, issued>>

GetButton(identifier, button) ==
    Query([op |-> "GetButton", identifier |-> identifier, index |-> button],
          GetButtonIn(controller_list, identifier, button))

GetHatButton(identifier, button, direction) ==
    Query([op |-> "GetHatButton", identifier |-> identifier, index |-> button,
           direction |-> direction],
          GetHatButtonIn(controller_list, identifier, button, direction))

GetAxis(identifier, axis) ==
    Query([op |-> "GetAxis", identifier |-> identifier, index |-> axis],
          GetAxisIn(controller_list, identifier, axis))

GetBattery(identifier) ==
    Query([op |-> "GetBattery", identifier |-> identifier, index |-> 0],
          GetBatteryIn(controller_list, identifier))

GetMotion(identifier, motion) ==
    Query([op |-> "GetMotion", identifier |-> identifier, index |-> motion],
          GetMotionIn(controller_list, identifier, motion))

BeginConfiguration ==
    /\ configuring' = TRUE
    /\ Return([op |-> "BeginConfiguration"], Void, EmptyMap, <<>>)
    /\ UNCHANGED <<controller_list, Registry, issued>>

EndConfiguration ==
    /\ configuring' = FALSE
    /\ Return([op |-> "EndConfiguration"], Void, EmptyMap, <<>>)
    /\ UNCHANGED <<controller_list, Registry, issued>>

\* callback_list.insert_or_assign(last_callback_key, ...); return last_callback_key++;
SetCallback(input_identifier) ==
    /\ callback_list' =
         insert_or_assign(callback_list, last_callback_key, input_identifier)
    /\ last_callback_key' = last_callback_key + 1
    /\ Return([op |-> "SetCallback", input |-> input_identifier],
              Ok(last_callback_key), EmptyMap, <<>>)
    /\ issued' = Append(issued, last_callback_key)
    /\ UNCHANGED <<controller_list, configuring, mapping_callback>>

SetMappingCallback(callback) ==
    /\ mapping_callback' = callback
    /\ Return([op |-> "SetMappingCallback", callback |-> callback],
              Void, EmptyMap, <<>>)
    /\ UNCHANGED <<controller_list, configuring, callback_list, last_callback_key,
                   issued>>

DeleteCallback(key) ==
    /\ callback_list' =
         IF key \notin DOMAIN callback_list THEN callback_list
         ELSE erase(callback_list, key)
    /\ Return([op |-> "DeleteCallback", key |-> key], Void, EmptyMap, <<>>)
    /\ UNCHANGED <<controller_list, configuring, last_callback_key,
                   mapping_callback, issued>>

(***************************************************************************)
(* The engine driven by one caller.                                        *)
(***************************************************************************)
Idle == [pc |-> 0, fault |-> FALSE]
Threads == 1..NumThreads
AtRest == [pc |-> "idle"]

Init ==
    /\ controller_list = EmptyMap
    /\ configuring = FALSE
    /\ callback_list = EmptyMap
    /\ last_callback_key = 0
    /\ mapping_callback = NoObserver
    /\ last = [op |-> "Init"]
    /\ ret = Void
    /\ notified = EmptyMap
    /\ events = <<>>
    /\ issued = <<>>
    /\ script = Idle
    /\ mutex_callback = 0
    /\ threads = [t \in Threads |-> AtRest]
    /\ mutex = 0

\* The model's bounds on what a call may leave behind.
Bounded ==
    /\ EntryCount(controller_list) <= MaxEntries
    /\ last_callback_key <= MaxKeys

\* A call of the single caller, within the bounds and outside the scenario.
Step(call) ==
    call /\ Bounded' /\ UNCHANGED <<script, mutex_callback, threads, mutex>>

\* The table protocol: every kind, two values of each kind, index 0 of
\* both pads.
Next ==
    \/ \E identifier \in Pads, battery \in BatteryLevels :
           Step(PreSetController(identifier, battery))
    \/ \E identifier \in Pads : Step(PreSetButton(identifier, 0))
    \/ \E identifier \in Pads : Step(PreSetHatButton(identifier, 0))
    \/ \E identifier \in Pads : Step(PreSetAxis(identifier, 0))
    \/ \E identifier \in Pads : Step(PreSetMotion(identifier, 0))
    \/ \E identifier \in Pads, value \in ButtonValues :
           Step(SetButton(identifier, 0, value))
    \/ \E identifier \in Pads, value \in {0, 5} :
           Step(SetHatButton(identifier, 0, value))
    \/ \E identifier \in Pads, value \in {0, 5} :
           Step(SetAxis(identifier, 0, value))
    \/ \E identifier \in Pads, value \in BatteryLevels :
           Step(SetBattery(identifier, value))
    \/ \E identifier \in Pads,
          value \in {ZeroMotion, [ZeroMotion EXCEPT !.accel_z = -20]} :
           Step(SetMotion(identifier, 0, value))
    \/ \E identifier \in Pads : Step(GetButton(identifier, 0))
    \/ \E identifier \in Pads : Step(GetHatButton(identifier, 0, 4))
    \/ \E identifier \in Pads : Step(GetAxis(identifier, 0))
    \/ \E identifier \in Pads : Step(GetBattery(identifier))
    \/ \E identifier \in Pads : Step(GetMotion(identifier, 0))
    \/ Step(BeginConfiguration)
    \/ Step(EndConfiguration)
    \/ \E callback \in {NoObserver, 1} : Step(SetMappingCallback(callback))

Spec == Init /\ [][Next]_vars

(***************************************************************************)
(* Mapping detection: buttons, hats and axes of both pads and indexes,     *)
(* with every hat mask of HatValues and every axis value of AxisValues.    *)
(***************************************************************************)
NextDetect ==
    \/ \E identifier \in Pads : Step(PreSetController(identifier, "Empty"))
    \/ \E identifier \in Pads, index \in Indexes, value \in ButtonValues :
           Step(SetButton(identifier, index, value))
    \/ \E identifier \in Pads, index \in Indexes, value \in HatValues :
           Step(SetHatButton(identifier, index, value))
    \/ \E identifier \in Pads, index \in Indexes, value \in AxisValues :
           Step(SetAxis(identifier, index, value))
    \/ Step(BeginConfiguration)
    \/ Step(EndConfiguration)
    \/ \E callback \in {NoObserver, 1} : Step(SetMappingCallback(callback))

SpecDetect == Init /\ [][NextDetect]_vars

(***************************************************************************)
(* Listeners: subscriptions of every kind on (PadA, 0), and Set* calls of  *)
(* every kind on both pads and both indexes, in both modes.                *)
(***************************************************************************)
StepListen(call) == Step(call) /\ last_callback_key' <= MaxListeners

Listeners ==
    {sub \in Subscriptions : sub.on_change \/ sub.type = "Button"}

NextListen ==
    \/ \E identifier \in Pads : StepListen(PreSetController(identifier, "Empty"))
    \/ \E slot \in {<<PadA, 0>>, <<PadA, 1>>, <<PadB, 0>>} :
           StepListen(SetButton(slot[1], slot[2], TRUE))
    \/ \E slot \in {<<PadA, 0>>, <<PadA, 1>>, <<PadB, 0>>} :
           StepListen(SetHatButton(slot[1], slot[2], 5))
    \/ \E slot \in {<<PadA, 0>>, <<PadA, 1>>, <<PadB, 0>>} :
           StepListen(SetAxis(slot[1], slot[2], 5))
    \/ \E identifier \in Pads : StepListen(SetBattery(identifier, "Empty"))
    \/ \E slot \in {<<PadA, 0>>, <<PadA, 1>>, <<PadB, 0>>} :
           StepListen(SetMotion(slot[1], slot[2], ZeroMotion))
    \/ StepListen(BeginConfiguration)
    \/ StepListen(EndConfiguration)
    \/ \E input_identifier \in Listeners :
           StepListen(SetCallback(input_identifier))
    \/ \E key \in 0..MaxListeners : StepListen(DeleteCallback(key))

SpecListen == Init /\ [][NextListen]_vars

(***************************************************************************)
(* The registry alone: subscribe, unsubscribe, replace the observer.       *)
(***************************************************************************)
NextRegistry ==
    \/ \E input_identifier \in Listeners : Step(SetCallback(input_identifier))
    \/ \E key \in 0..MaxKeys : Step(DeleteCallback(key))
    \/ \E callback \in {NoObserver} \cup Observers :
           Step(SetMappingCallback(callback))

SpecRegistry == Init /\ [][NextRegistry]_vars

(***************************************************************************)
(* SetCallback and DeleteCallback called by concurrent threads, statement  *)
(* by statement.  `return last_callback_key++` is a load and a store.      *)
(***************************************************************************)
Engine == <<controller_list, configuring, mapping_callback, last, ret,
            notified, events, script, mutex>>

At(t, pc) == threads[t].pc = pc
Goto(t, pc) == threads' = [threads EXCEPT ![t].pc = pc]

\* A thread enters SetCallback(input_identifier).
CallSetCallback(t, input_identifier) ==
    /\ At(t, "idle")
    /\ last_callback_key < MaxKeys
    /\ threads' = [threads EXCEPT
                     ![t] = [pc |-> "lock", op |-> "SetCallback",
                             input |-> input_identifier]]
    /\ UNCHANGED <<Engine, callback_list, last_callback_key, issued, mutex_callback>>

\* A thread enters DeleteCallback(key).
CallDeleteCallback(t, key) ==
    /\ At(t, "idle")
    /\ threads' = [threads EXCEPT
                     ![t] = [pc |-> "lock", op |-> "DeleteCallback", key |-> key]]
    /\ UNCHANGED <<Engine, callback_list, last_callback_key, issued, mutex_callback>>

\* Taking the lock without waiting for it to be free.
Lock_NoWait(t) ==
    /\ At(t, "lock")
    /\ mutex_callback' = t
    /\ Goto(t, "locked")
    /\ UNCHANGED <<Engine, callback_list, last_callback_key, issued>>

\* std::lock_guard lock{mutex_callback};
Lock(t) ==
    /\ At(t, "lock")
    /\ mutex_callback = 0
    /\ mutex_callback' = t
    /\ Goto(t, "locked")
    /\ UNCHANGED <<Engine, callback_list, last_callback_key, issued>>

\* callback_list.insert_or_assign(last_callback_key, std::move(input_identifier));
SetCallbackInsert(t) ==
    /\ At(t, "locked") /\ threads[t].op = "SetCallback"
    /\ callback_list' =
         insert_or_assign(callback_list, last_callback_key, threads[t].input)
    /\ Goto(t, "load")
    /\ UNCHANGED <<Engine, last_callback_key, issued, mutex_callback>>

\* return last_callback_key++; the load of the value to return.
SetCallbackLoad(t) ==
    /\ At(t, "load")
    /\ threads' = [threads EXCEPT
                     ![t] = [pc |-> "store", op |-> "SetCallback",
                             input |-> threads[t].input,
                             key |-> last_callback_key]]
    /\ UNCHANGED <<Engine, callback_list, last_callback_key, issued, mutex_callback>>

\* return last_callback_key++; the store of the incremented value.  The key
\* the call returns is fixed here.
SetCallbackStore(t) ==
    /\ At(t, "store")
    /\ last_callback_key' = threads[t].key + 1
    /\ issued' = Append(issued, threads[t].key)
    /\ Goto(t, "unlock")
    /\ UNCHANGED <<Engine, callback_list, mutex_callback>>

\* callback_list.find(key), the early return, callback_list.erase(iterator).
DeleteCallbackErase(t) ==
    /\ At(t, "locked") /\ threads[t].op = "DeleteCallback"
    /\ callback_list' =
         IF threads[t].key \notin DOMAIN callback_list THEN callback_list
         ELSE erase(callback_list, threads[t].key)
    /\ Goto(t, "unlock")
    /\ UNCHANGED <<Engine, last_callback_key, issued, mutex_callback>>

\* The lock_guard's destructor; the call returns.
Unlock(t) ==
    /\ At(t, "unlock")
    /\ mutex_callback' = IF mutex_callback = t THEN 0 ELSE mutex_callback
    /\ threads' = [threads EXCEPT ![t] = AtRest]
    /\ UNCHANGED <<Engine, callback_list, last_callback_key, issued>>

NextKeys ==
    \/ \E t \in Threads, input_identifier \in {sub \in Listeners : sub.type = "Button"} :
           CallSetCallback(t, input_identifier)
    \/ \E t \in Threads, key \in 0..MaxKeys : CallDeleteCallback(t, key)
    \/ \E t \in Threads : Lock(t)
    \/ \E t \in Threads : SetCallbackInsert(t)
    \/ \E t \in Threads : SetCallbackLoad(t)
    \/ \E t \in Threads : SetCallbackStore(t)
    \/ \E t \in Threads : DeleteCallbackErase(t)
    \/ \E t \in Threads : Unlock(t)

SpecKeys == Init /\ [][NextKeys]_vars

(***************************************************************************)
(* The end-to-end scenario on device PadA, begun from any state in which   *)
(* PadA is not in the table: as stated (it begins with PreSetButton), and  *)
(* with PadA registered by PreSetController first.                         *)
(***************************************************************************)
\* The caller makes `call` as step pc of the scenario; a call that throws
\* ends the scenario.
ScriptStep(pc, variant, call) ==
    /\ script.pc = pc /\ ~script.fault
    /\ call
    /\ Bounded'
    /\ script' =
         [pc |-> pc + 1,
          fault |-> ret'.outcome # "ok",
          variant |-> variant,
          reads |-> IF last'.op = "GetButton" /\ ret'.outcome = "ok"
                    THEN Append(script.reads, ret'.value) ELSE script.reads,
          received |-> script.received \o events']
    /\ UNCHANGED <<mutex_callback, threads, mutex>>

\* Before the scenario: calls that leave PadA out of the table.
Prelude(call) == script.pc = 0 /\ Step(call)

NextE2E ==
    \/ \E battery \in BatteryLevels : Prelude(PreSetController(PadB, battery))
    \/ \E value \in BatteryLevels : Prelude(SetBattery(PadB, value))
    \/ Prelude(BeginConfiguration)
    \/ Prelude(EndConfiguration)
    \/ \E callback \in {NoObserver, 2} : Prelude(SetMappingCallback(callback))
    \/ \E input_identifier \in {sub \in Listeners : sub.type = "Button"} :
           Prelude(SetCallback(input_identifier))
    \* the scenario as stated: PreSetButton(D, 0) on the unknown device
    \/ /\ PadA \notin DOMAIN controller_list
       /\ script.pc = 0
       /\ PreSetButton(PadA, 0)
       /\ script' = [pc |-> 2, fault |-> ret'.outcome # "ok",
                     variant |-> "stated", reads |-> <<>>, received |-> <<>>]
       /\ UNCHANGED <<mutex_callback, threads, mutex>>
    \* the scenario with the device registered first
    \/ /\ PadA \notin DOMAIN controller_list
       /\ script.pc = 0
       /\ PreSetController(PadA, "Empty")
       /\ script' = [pc |-> 1, fault |-> ret'.outcome # "ok",
                     variant |-> "registered",
                     reads |-> <<>>, received |-> <<>>]
       /\ UNCHANGED <<mutex_callback, threads, mutex>>
    \/ ScriptStep(1, "registered", PreSetButton(PadA, 0))
    \/ ScriptStep(2, script.variant, GetButton(PadA, 0))
    \/ ScriptStep(3, script.variant, BeginConfiguration)
    \/ ScriptStep(4, script.variant, SetMappingCallback(1))
    \/ ScriptStep(5, script.variant, SetButton(PadA, 0, TRUE))
    \/ ScriptStep(6, script.variant, GetButton(PadA, 0))
    \/ ScriptStep(7, script.variant, EndConfiguration)
    \/ ScriptStep(8, script.variant, SetButton(PadA, 0, TRUE))
    \/ ScriptStep(9, script.variant, GetButton(PadA, 0))

SpecE2E == Init /\ [][NextE2E]_vars

(***************************************************************************)
(* The calls as concurrent threads run them: one step for each lock        *)
(* acquisition, each locked block, each callback invocation and each       *)
(* callback return.  The threads start from a state that calls made one    *)
(* after the other have reached, and each thread makes one call.           *)
(***************************************************************************)
Caller == <<last, ret, notified, events, script>>

\* std::lock_guard's constructor returns once the mutex has no owner.
CanLock(owner) == owner = 0

\* What the lock_guard's destructor leaves in the mutex.
Release(owner, t) == IF owner = t THEN 0 ELSE owner

TableCalls ==
    {"PreSetController", "PreSetButton", "PreSetHatButton", "PreSetAxis",
     "PreSetMotion", "GetButton", "GetHatButton", "GetAxis", "GetBattery",
     "GetMotion"}
SetCalls == {"SetButton", "SetHatButton", "SetAxis", "SetBattery", "SetMotion"}
RegistryCalls == {"SetCallback", "DeleteCallback", "SetMappingCallback"}
ModeCalls == {"BeginConfiguration", "EndConfiguration"}
ResetCalls == {"ResetButtonState", "ResetAnalogState"}

\* The EngineInputType a Set* hands to IsInputIdentifierEqual.
KindOf(op) ==
    CASE op = "SetButton" -> "Button"
      [] op = "SetHatButton" -> "HatButton"
      [] op = "SetAxis" -> "Analog"
      [] op = "SetBattery" -> "Battery"
      [] op = "SetMotion" -> "Motion"

\* The argument of a call, whatever its type: a bool, a number (u8 mask, f32
\* in eighths, observer), a BatteryLevel, a BasicMotion or an InputIdentifier.
NoValue ==
    [b |-> FALSE, n |-> 0, level |-> "Empty", motion |-> ZeroMotion,
     input |-> [identifier |-> PadA, type |-> "Button", index |-> 0,
                on_change |-> FALSE]]
Bool(b) == [NoValue EXCEPT !.b = b]
Num(n) == [NoValue EXCEPT !.n = n]
Level(l) == [NoValue EXCEPT !.level = l]
Motion(m) == [NoValue EXCEPT !.motion = m]
Input(i) == [NoValue EXCEPT !.input = i]

Call(op, identifier, index, value) ==
    [op |-> op, identifier |-> identifier, index |-> index, value |-> value]

\* The first statement of a call.
EntryOf(op) ==
    CASE op \in TableCalls \cup SetCalls -> "lock_table"
      [] op \in RegistryCalls -> "lock_registry"
      [] op \in ModeCalls -> "flag"
      [] op \in ResetCalls -> "reset"

\* A call in progress; outer is the frame it was called from, if any.
Frame(call, outer) ==
    [pc |-> EntryOf(call.op), op |-> call.op, identifier |-> call.identifier,
     index |-> call.index, value |-> call.value,
     todo |-> {}, bit |-> 1, changed |-> FALSE, visited |-> {},
     nested |-> FALSE, outer |-> outer]

Returned(f, outcome) == [pc |-> "returned", op |-> f.op, outcome |-> outcome]

InCall(t) == threads[t].pc \notin {"idle", "returned"}

\* The call returns: to the frame that made it, or to the thread's caller.
Finish(t) ==
    IF threads[t].outer = <<>> THEN Returned(threads[t], "ok")
    ELSE threads[t].outer[1]

\* A call made while no thread is inside the engine.
Sequential(call) == (\A t \in Threads : threads[t] = AtRest) /\ Step(call)

\* A thread calls into the engine.
Enter(t, call) ==
    /\ threads[t] = AtRest
    /\ threads' = [threads EXCEPT ![t] = Frame(call, <<>>)]
    /\ UNCHANGED <<Caller, controller_list, configuring, Registry, issued,
                   mutex, mutex_callback>>

\* std::lock_guard lock{mutex};
LockTable(t) ==
    /\ threads[t].pc \in {"lock_table", "preset_lock", "get_lock"}
    /\ CanLock(mutex)
    /\ mutex' = t
    /\ threads' = [threads EXCEPT
                     ![t].pc = CASE @ = "lock_table" -> "table"
                                 [] @ = "preset_lock" -> "preset"
                                 [] @ = "get_lock" -> "get"]
    /\ UNCHANGED <<Caller, controller_list, configuring, Registry, issued,
                   mutex_callback>>

\* The table after the locked block of call f.
TableAfter(cl, cfg, f) ==
    CASE f.op = "PreSetController" -> PreSetControllerIn(cl, f.identifier, "Empty")
      [] f.op = "PreSetButton" -> PreSetButtonIn(cl, f.identifier, f.index)
      [] f.op = "PreSetHatButton" -> PreSetHatButtonIn(cl, f.identifier, f.index)
      [] f.op = "PreSetAxis" -> PreSetAxisIn(cl, f.identifier, f.index)
      [] f.op = "PreSetMotion" -> PreSetMotionIn(cl, f.identifier, f.index)
      [] f.op = "SetButton" -> WriteButton(cl, cfg, f.identifier, f.index, f.value.b)
      [] f.op = "SetHatButton" ->
           WriteHatButton(cl, cfg, f.identifier, f.index, f.value.n)
      [] f.op = "SetAxis" -> WriteAxis(cl, cfg, f.identifier, f.index, f.value.n)
      [] f.op = "SetBattery" -> WriteBattery(cl, cfg, f.identifier, f.value.level)
      [] f.op = "SetMotion" -> WriteMotion(cl, cfg, f.identifier, f.index, f.value.motion)
      [] OTHER -> cl

\* Whether the locked block of call f throws std::out_of_range from at().
BlockThrows(cl, f) ==
    \/ /\ f.op \in SetCalls \cup (TableCalls \ {"PreSetController", "GetButton",
                                   "GetHatButton", "GetAxis", "GetBattery", "GetMotion"})
       /\ f.identifier \notin DOMAIN cl
    \/ f.op = "GetMotion" /\ GetMotionIn(cl, f.identifier, f.index) = OutOfRange

\* An exception leaves the call and every frame under it; the lock_guards
\* on the way release what the thread holds.
Unwind(t, outcome) ==
    /\ threads' = [threads EXCEPT ![t] = Returned(threads[t], outcome)]
    /\ mutex' = Release(mutex, t)
    /\ mutex_callback' = Release(mutex_callback, t)

\* After its locked block a Set* goes on to TriggerOn*Change.
AfterTable_Held(t) == t

\* The lock_guard of the braces around a Set*'s table block is destroyed at
\* the closing brace, before TriggerOn*Change is called.
AfterTable(t) == 0

\* The block under the table lock of PreSetController, PreSet*, Get*, Set*.
TableBlock(t) ==
    LET f == threads[t]
    IN  /\ f.pc = "table"
        /\ IF BlockThrows(controller_list, f)
           THEN /\ Unwind(t, "out_of_range")
                /\ UNCHANGED controller_list
           ELSE /\ controller_list' = TableAfter(controller_list, configuring, f)
                /\ UNCHANGED mutex_callback
                /\ IF f.op \in SetCalls
                   THEN /\ mutex' = AfterTable(t)
                        /\ threads' = [threads EXCEPT
                             ![t].pc = "lock_registry",
                             ![t].changed = controller_list' # controller_list]
                   ELSE /\ mutex' = 0
                        /\ threads' = [threads EXCEPT ![t] = Finish(t)]
        /\ UNCHANGED <<Caller, configuring, Registry, issued>>

\* std::lock_guard lock{mutex_callback};
LockRegistry(t) ==
    LET f == threads[t]
    IN  /\ f.pc = "lock_registry"
        /\ CanLock(mutex_callback)
        /\ mutex_callback' = t
        /\ threads' = [threads EXCEPT
             ![t].pc = IF f.op \in SetCalls THEN "pollers" ELSE "registry",
             ![t].todo =
                IF f.op \in SetCalls
                THEN DOMAIN ScanPollers(callback_list, f.identifier, KindOf(f.op),
                                        IF f.op = "SetBattery" THEN 0 ELSE f.index)
                ELSE {}]
        /\ UNCHANGED <<Caller, controller_list, configuring, Registry, issued, mutex>>

\* poller.callback.on_change(): the notifier of the next matching poller is
\* called.
PollerLoop(t) ==
    /\ threads[t].pc = "pollers"
    /\ \E k \in threads[t].todo :
         threads' = [threads EXCEPT ![t].pc = "on_change", ![t].todo = @ \ {k}]
    /\ UNCHANGED <<Caller, controller_list, configuring, Registry, issued,
                   mutex, mutex_callback>>

\* The notifier returns.
OnChangeReturns(t) ==
    /\ threads[t].pc = "on_change"
    /\ threads' = [threads EXCEPT ![t].pc = "pollers"]
    /\ UNCHANGED <<Caller, controller_list, configuring, Registry, issued,
                   mutex, mutex_callback>>

\* After the poller loop: TriggerOnBatteryChange ends; the others test
\* `!configuring || !mapping_callback.on_data` and go on to their detection.
CheckMapping(t) ==
    LET f == threads[t]
        stop == \/ f.op = "SetBattery"
                \/ MappingOff(configuring, mapping_callback)
                \/ f.op = "SetMotion" /\ ~IsActive(f.value.motion)
    IN  /\ f.pc = "pollers" /\ f.todo = {}
        /\ IF stop
           THEN /\ mutex_callback' = 0
                /\ threads' = [threads EXCEPT ![t] = Finish(t)]
           ELSE /\ UNCHANGED mutex_callback
                /\ threads' = [threads EXCEPT
                     ![t].pc = CASE f.op = "SetButton" -> "preset_lock"
                                 [] f.op = "SetMotion" -> "emit"
                                 [] OTHER -> "get_lock"]
        /\ UNCHANGED <<Caller, controller_list, configuring, Registry, issued, mutex>>

\* PreSetButton(identifier, button) called by TriggerOnButtonChange.
DetectPreSet(t) ==
    LET f == threads[t]
    IN  /\ f.pc = "preset"
        /\ controller_list' = PreSetButtonIn(controller_list, f.identifier, f.index)
        /\ mutex' = 0
        /\ threads' = [threads EXCEPT ![t].pc = "get_lock"]
        /\ UNCHANGED <<Caller, configuring, Registry, issued, mutex_callback>>

\* Whether the detection of call f finds nothing to report against table cl.
NothingToReport(cl, f) ==
    CASE f.op = "SetButton" ->
           f.value.b = GetButtonIn(cl, f.identifier, f.index).value
      [] f.op = "SetAxis" ->
           Abs(f.value.n - GetAxisIn(cl, f.identifier, f.index).value)
             < AxisThreshold
      [] f.op = "SetHatButton" ->
           (BitAnd(f.value.n, f.bit) # 0)
             = GetHatButtonIn(cl, f.identifier, f.index, f.bit).value

\* The frame after one detection of call f is over: the hat loop goes on to
\* its next direction bit, everything else returns.
Onward(t) ==
    LET f == threads[t]
    IN  IF f.op = "SetHatButton" /\ f.bit * 2 < 255
        THEN [f EXCEPT !.pc = "get_lock", !.bit = f.bit * 2]
        ELSE Finish(t)

\* GetButton / GetAxis / GetHatButton called by TriggerOn*Change, and the
\* comparison with the incoming value.
DetectGet(t) ==
    LET f == threads[t]
    IN  /\ f.pc = "get"
        /\ mutex' = 0
        /\ IF NothingToReport(controller_list, f)
           THEN /\ threads' = [threads EXCEPT ![t] = Onward(t)]
                /\ mutex_callback' =
                     IF Onward(t).pc = "get_lock" THEN mutex_callback ELSE 0
           ELSE /\ threads' = [threads EXCEPT ![t].pc = "emit"]
                /\ UNCHANGED mutex_callback
        /\ UNCHANGED <<Caller, controller_list, configuring, Registry, issued>>

\* mapping_callback.on_data(MappingData{...}): the observer is called.
Emit(t) ==
    /\ threads[t].pc = "emit"
    /\ threads' = [threads EXCEPT ![t].pc = "on_data"]
    /\ UNCHANGED <<Caller, controller_list, configuring, Registry, issued,
                   mutex, mutex_callback>>

\* The observer returns.
OnDataReturns(t) ==
    /\ threads[t].pc = "on_data"
    /\ threads' = [threads EXCEPT ![t] = Onward(t)]
    /\ mutex_callback' = IF Onward(t).pc = "get_lock" THEN mutex_callback ELSE 0
    /\ UNCHANGED <<Caller, controller_list, configuring, Registry, issued, mutex>>

\* The block under the registry lock of SetCallback, DeleteCallback and
\* SetMappingCallback.
RegistryBlock(t) ==
    LET f == threads[t]
    IN  /\ f.pc = "registry"
        /\ callback_list' =
             CASE f.op = "SetCallback" ->
                    insert_or_assign(callback_list, last_callback_key, f.value.input)
               [] f.op = "DeleteCallback" /\ f.index \in DOMAIN callback_list ->
                    erase(callback_list, f.index)
               [] OTHER -> callback_list
        /\ last_callback_key' =
             IF f.op = "SetCallback" THEN last_callback_key + 1
             ELSE last_callback_key
        /\ issued' =
             IF f.op = "SetCallback" THEN Append(issued, last_callback_key)
             ELSE issued
        /\ mapping_callback' =
             IF f.op = "SetMappingCallback" THEN f.value.n ELSE mapping_callback
        /\ mutex_callback' = 0
        /\ threads' = [threads EXCEPT ![t] = Finish(t)]
        /\ UNCHANGED <<Caller, controller_list, configuring, mutex>>

\* configuring = true; / configuring = false; no lock is taken.
SetMode(t) ==
    /\ threads[t].pc = "flag"
    /\ configuring' = (threads[t].op = "BeginConfiguration")
    /\ threads' = [threads EXCEPT ![t] = Finish(t)]
    /\ UNCHANGED <<Caller, controller_list, Registry, issued, mutex, mutex_callback>>

\* The steps of thread t inside a call and inside its callbacks.
Run(t) ==
    \/ LockTable(t)
    \/ TableBlock(t)
    \/ LockRegistry(t)
    \/ PollerLoop(t)
    \/ OnChangeReturns(t)
    \/ CheckMapping(t)
    \/ DetectPreSet(t)
    \/ DetectGet(t)
    \/ Emit(t)
    \/ OnDataReturns(t)
    \/ RegistryBlock(t)
    \/ SetMode(t)

ActiveMotion == [ZeroMotion EXCEPT !.accel_z = -20]
ButtonListener ==
    [identifier |-> PadA, type |-> "Button", index |-> 0, on_change |-> TRUE]

\* The calls the threads make at the same time.
ThreadCalls ==
    <<Call("PreSetButton", PadA, 0, NoValue), Call("GetButton", PadA, 0, NoValue),
      Call("SetButton", PadA, 0, Bool(TRUE)), Call("SetHatButton", PadA, 0, Num(128)),
      Call("SetAxis", PadA, 0, Num(5)), Call("SetBattery", PadA, 0, Level("Empty")),
      Call("SetMotion", PadA, 0, Motion(ActiveMotion)),
      Call("SetCallback", PadA, 0, Input(ButtonListener)),
      Call("DeleteCallback", PadA, 0, NoValue),
      Call("SetMappingCallback", PadA, 0, Num(1)),
      Call("BeginConfiguration", PadA, 0, NoValue),
      Call("EndConfiguration", PadA, 0, NoValue)>>

NextLocks ==
    \/ Sequential(PreSetController(PadA, "Empty"))
    \/ Sequential(BeginConfiguration)
    \/ Sequential(SetMappingCallback(1))
    \/ Sequential(SetCallback(ButtonListener))
    \/ \E t \in Threads, i \in DOMAIN ThreadCalls : Enter(t, ThreadCalls[i])
    \/ \E t \in Threads : LockTable(t)
    \/ \E t \in Threads : TableBlock(t)
    \/ \E t \in Threads : LockRegistry(t)
    \/ \E t \in Threads : PollerLoop(t)
    \/ \E t \in Threads : OnChangeReturns(t)
    \/ \E t \in Threads : CheckMapping(t)
    \/ \E t \in Threads : DetectPreSet(t)
    \/ \E t \in Threads : DetectGet(t)
    \/ \E t \in Threads : Emit(t)
    \/ \E t \in Threads : OnDataReturns(t)
    \/ \E t \in Threads : RegistryBlock(t)
    \/ \E t \in Threads : SetMode(t)

SpecLocks == Init /\ [][NextLocks]_vars

\* The calls of the three locking patterns: table lock only, registry lock
\* only, and table lock, then registry lock with the table lock taken
\* again inside it.
ContendingCalls ==
    <<Call("PreSetButton", PadA, 0, NoValue), Call("GetButton", PadA, 0, NoValue),
      Call("SetButton", PadA, 0, Bool(TRUE)), Call("SetAxis", PadA, 0, Num(5)),
      Call("SetCallback", PadA, 0, Input(ButtonListener)),
      Call("DeleteCallback", PadA, 0, NoValue),
      Call("SetMappingCallback", PadA, 0, Num(1))>>

NextContend ==
    \/ Sequential(PreSetController(PadA, "Empty"))
    \/ Sequential(BeginConfiguration)
    \/ Sequential(SetMappingCallback(1))
    \/ \E t \in Threads, i \in DOMAIN ContendingCalls : Enter(t, ContendingCalls[i])
    \/ \E t \in Threads : LockTable(t)
    \/ \E t \in Threads : TableBlock(t)
    \/ \E t \in Threads : LockRegistry(t)
    \/ \E t \in Threads : PollerLoop(t)
    \/ \E t \in Threads : OnChangeReturns(t)
    \/ \E t \in Threads : CheckMapping(t)
    \/ \E t \in Threads : DetectPreSet(t)
    \/ \E t \in Threads : DetectGet(t)
    \/ \E t \in Threads : Emit(t)
    \/ \E t \in Threads : OnDataReturns(t)
    \/ \E t \in Threads : RegistryBlock(t)

\* Under a scheduler that lets every thread that can take a step take one;
\* callbacks return.
SpecLocksFair ==
    Init /\ [][NextContend]_vars /\ \A t \in Threads : WF_vars(Run(t))

SpecLocksAll == SpecLocks /\ \A t \in Threads : WF_vars(Run(t))

(***************************************************************************)
(* Callbacks that call back into the engine on the thread that runs them.  *)
(***************************************************************************)
\* A callback calls into the engine; the frame of the Set* that invoked the
\* callback waits for the call to return.
Reenter(t, call) ==
    /\ threads[t].pc \in {"on_change", "on_data"}
    /\ ~threads[t].nested
    /\ threads' = [threads EXCEPT
                     ![t] = Frame(call, <<[threads[t] EXCEPT !.nested = TRUE]>>)]
    /\ UNCHANGED <<Caller, controller_list, configuring, Registry, issued,
                   mutex, mutex_callback>>

\* The lock the thread is about to take is one it holds itself.
SelfLocked(t) ==
    \/ threads[t].pc = "lock_registry" /\ mutex_callback = t
    \/ threads[t].pc \in {"lock_table", "preset_lock", "get_lock"} /\ mutex = t

\* Locking a std::mutex the thread already owns is undefined: the thread
\* blocks for ever (no step), or lock() throws std::system_error, which
\* leaves every frame of the thread.
RelockThrows(t) ==
    /\ SelfLocked(t)
    /\ Unwind(t, "system_error")
    /\ UNCHANGED <<Caller, controller_list, configuring, Registry, issued>>

\* What a callback calls.
ReentrantCalls ==
    <<Call("GetButton", PadA, 0, NoValue), Call("SetButton", PadA, 0, Bool(FALSE)),
      Call("SetCallback", PadA, 0, Input(ButtonListener)),
      Call("DeleteCallback", PadA, 0, NoValue)>>

\* One thread; its Set* calls invoke callbacks that call back.
NextReentry ==
    \/ Sequential(PreSetController(PadA, "Empty"))
    \/ Sequential(BeginConfiguration)
    \/ Sequential(SetMappingCallback(1))
    \/ Sequential(SetCallback(ButtonListener))
    \/ Enter(1, Call("SetButton", PadA, 0, Bool(TRUE)))
    \/ Enter(1, Call("SetMotion", PadA, 0, Motion(ActiveMotion)))
    \/ \E i \in DOMAIN ReentrantCalls : Reenter(1, ReentrantCalls[i])
    \/ RelockThrows(1)
    \/ LockTable(1)
    \/ TableBlock(1)
    \/ LockRegistry(1)
    \/ PollerLoop(1)
    \/ OnChangeReturns(1)
    \/ CheckMapping(1)
    \/ DetectPreSet(1)
    \/ DetectGet(1)
    \/ Emit(1)
    \/ OnDataReturns(1)

SpecReentry == Init /\ [][NextReentry]_vars

(***************************************************************************)
(* ResetButtonState and ResetAnalogState next to other threads.  The loops *)
(* walk controller_list and the maps of each ControllerData through        *)
(* iterators, with no lock_guard in the function, and call Set* for each   *)
(* entry.  What the walk reads when another thread inserts meanwhile is    *)
(* undefined; here it sees the table as it is at each step.                *)
(***************************************************************************)
\* ResetButtonState without its loop over hat_buttons.
ResetEntries_NoHats(cl, op) ==
    IF op = "ResetButtonState"
    THEN {e \in (DOMAIN cl) \X {"SetButton"} \X Indexes :
                  e[3] \in DOMAIN cl[e[1]].buttons}
    ELSE {e \in (DOMAIN cl) \X {"SetAxis"} \X Indexes :
            e[3] \in DOMAIN cl[e[1]].axes}

\* The Set* calls the loop has to make on table cl: device, call, index.
ResetEntries(cl, op) ==
    IF op = "ResetButtonState"
    THEN {e \in (DOMAIN cl) \X {"SetButton"} \X Indexes :
                  e[3] \in DOMAIN cl[e[1]].buttons}
         \cup {e \in (DOMAIN cl) \X {"SetHatButton"} \X Indexes :
                  e[3] \in DOMAIN cl[e[1]].hat_buttons}
    ELSE {e \in (DOMAIN cl) \X {"SetAxis"} \X Indexes :
            e[3] \in DOMAIN cl[e[1]].axes}

\* One turn of the loops: the iterators are advanced and read, and the Set*
\* for the entry is called with the neutral value; after the last entry the
\* function returns.
ResetNext(t) ==
    LET f == threads[t]
        todo == ResetEntries(controller_list, f.op) \ f.visited
    IN  /\ f.pc = "reset"
        /\ IF todo = {}
           THEN threads' = [threads EXCEPT ![t] = Finish(t)]
           ELSE \E e \in todo :
                  threads' = [threads EXCEPT
                    ![t] = Frame(Call(e[2], e[1], e[3], NoValue),
                                 <<[f EXCEPT !.visited = @ \cup {e}]>>)]
        /\ UNCHANGED <<Caller, controller_list, configuring, Registry, issued,
                       mutex, mutex_callback>>

RacingCalls ==
    <<Call("ResetButtonState", PadA, 0, NoValue),
      Call("ResetAnalogState", PadA, 0, NoValue),
      Call("PreSetController", PadB, 0, NoValue),
      Call("PreSetButton", PadA, 1, NoValue),
      Call("SetAxis", PadA, 1, Num(5))>>

NextRace ==
    \/ Sequential(PreSetController(PadA, "Empty"))
    \/ Sequential(SetButton(PadA, 0, TRUE))
    \/ Sequential(SetAxis(PadA, 0, 5))
    \/ \E t \in Threads, i \in DOMAIN RacingCalls : Enter(t, RacingCalls[i])
    \/ \E t \in Threads : ResetNext(t)
    \/ \E t \in Threads : LockTable(t)
    \/ \E t \in Threads : TableBlock(t)
    \/ \E t \in Threads : LockRegistry(t)
    \/ \E t \in Threads : CheckMapping(t)

SpecRace == Init /\ [][NextRace]_vars

(***************************************************************************)
(* ResetButtonState and ResetAnalogState run by one caller: the Set* calls *)
(* of the loops, one after the other, in the order the maps are walked.    *)
(***************************************************************************)
\* The orders in which the loops can reach the entries: the devices one
\* after the other, the buttons of a device before its hat buttons.
WalkOrders(entries) ==
    {order \in [1..Cardinality(entries) -> entries] :
        /\ \A i, j \in DOMAIN order : i # j => order[i] # order[j]
        /\ \A i, j, k \in DOMAIN order :
             (i < j /\ j < k /\ order[i][1] = order[k][1])
                => order[j][1] = order[i][1]
        /\ \A i, j \in DOMAIN order :
             (order[i][1] = order[j][1] /\ order[i][2] = "SetButton"
              /\ order[j][2] = "SetHatButton") => i < j}

\* SetButton(id, i, false) / SetHatButton(id, i, 0) / SetAxis(id, i, 0.0) on
\* entry e, made in state st of the walk.
ResetCall(st, cfg, cbl, mc, e) ==
    LET t == CASE e[2] = "SetButton" ->
                    TriggerOnButtonChange(
                        WriteButton(st.cl, cfg, e[1], e[3], FALSE),
                        cfg, cbl, mc, e[1], e[3], FALSE)
               [] e[2] = "SetHatButton" ->
                    TriggerOnHatButtonChange(
                        WriteHatButton(st.cl, cfg, e[1], e[3], 0),
                        cfg, cbl, mc, e[1], e[3], 0)
               [] e[2] = "SetAxis" ->
                    TriggerOnAxisChange(
                        WriteAxis(st.cl, cfg, e[1], e[3], 0),
                        cfg, cbl, mc, e[1], e[3], 0)
    IN  [cl |-> t.cl,
         notified |-> [k \in DOMAIN st.notified \cup DOMAIN t.notified |->
                         (IF k \in DOMAIN st.notified THEN st.notified[k] ELSE 0)
                         + (IF k \in DOMAIN t.notified THEN t.notified[k] ELSE 0)],
         events |-> st.events \o t.events,
         calls |-> Append(st.calls, [op |-> e[2], identifier |-> e[1],
                                      index |-> e[3]])]

\* The walk over the first n entries of order.
RECURSIVE ResetWalk(_, _, _, _, _, _)
ResetWalk(cl, cfg, cbl, mc, order, n) ==
    IF n = 0
    THEN [cl |-> cl, notified |-> EmptyMap, events |-> <<>>, calls |-> <<>>]
    ELSE ResetCall(ResetWalk(cl, cfg, cbl, mc, order, n - 1),
                   cfg, cbl, mc, order[n])

ResetState(op) ==
    \E order \in WalkOrders(ResetEntries(controller_list, op)) :
        LET st == ResetWalk(controller_list, configuring, callback_list,
                            mapping_callback, order, Len(order))
        IN  /\ controller_list' = st.cl
            /\ Return([op |-> op, calls |-> st.calls], Void, st.notified, st.events)
            /\ UNCHANGED <<configuring, Registry, issued>>

ResetButtonState == ResetState("ResetButtonState")

ResetAnalogState == ResetState("ResetAnalogState")

\* The bounds of the runs with resets: one entry more than MaxEntries, so
\* that a reset has more than one entry to walk.
StepReset(call) ==
    /\ call
    /\ EntryCount(controller_list') <= MaxEntries + 1
    /\ last_callback_key' <= MaxListeners
    /\ UNCHANGED <<script, mutex_callback, threads, mutex>>

NextReset ==
    \/ \E identifier \in Pads : StepReset(PreSetController(identifier, "Empty"))
    \/ \E identifier \in Pads, value \in ButtonValues :
           StepReset(SetButton(identifier, 0, value))
    \/ \E value \in {0, 5} : StepReset(SetHatButton(PadA, 0, value))
    \/ \E value \in {-4, 1} : StepReset(SetAxis(PadA, 0, value))
    \/ StepReset(SetMotion(PadA, 0, ActiveMotion))
    \/ StepReset(BeginConfiguration)
    \/ StepReset(EndConfiguration)
    \/ StepReset(SetMappingCallback(1))
    \/ \E type \in {"Button", "Analog"} :
           StepReset(SetCallback([ButtonListener EXCEPT !.type = type]))
    \/ StepReset(ResetButtonState)
    \/ StepReset(ResetAnalogState)

SpecReset == Init /\ [][NextReset]_vars

(***************************************************************************)
(* What the claims speak of.                                               *)
(***************************************************************************)
SetOps == {"SetButton", "SetHatButton", "SetAxis", "SetBattery", "SetMotion"}
PreSetOps == {"PreSetButton", "PreSetHatButton", "PreSetAxis", "PreSetMotion"}
GetOps == {"GetButton", "GetHatButton", "GetAxis", "GetBattery", "GetMotion"}
DirectionBits == {1, 2, 4, 8, 16, 32, 64, 128}

\* The map of ControllerData c that the call l is about.
MapOf(c, l) ==
    CASE l.op \in {"SetButton", "PreSetButton", "GetButton"} -> c.buttons
      [] l.op \in {"SetHatButton", "PreSetHatButton", "GetHatButton"} -> c.hat_buttons
      [] l.op \in {"SetAxis", "PreSetAxis", "GetAxis"} -> c.axes
      [] l.op \in {"SetMotion", "PreSetMotion", "GetMotion"} -> c.motions

KnownDevice(cl, l) == l.identifier \in DOMAIN cl

\* The device of call l is in the table and, but for the battery, so is its index.
Registered(cl, l) ==
    /\ KnownDevice(cl, l)
    /\ l.op \in {"SetBattery", "GetBattery"}
       \/ l.index \in DOMAIN MapOf(cl[l.identifier], l)

\* What the Get* matching the Set* call l returns on table cl (for a hat,
\* what GetHatButton returns for each direction).
MatchingGet(cl, l) ==
    CASE l.op = "SetButton" -> GetButtonIn(cl, l.identifier, l.index)
      [] l.op = "SetHatButton" ->
           [d \in DirectionBits |-> GetHatButtonIn(cl, l.identifier, l.index, d)]
      [] l.op = "SetAxis" -> GetAxisIn(cl, l.identifier, l.index)
      [] l.op = "SetBattery" -> GetBatteryIn(cl, l.identifier)
      [] l.op = "SetMotion" -> GetMotionIn(cl, l.identifier, l.index)

\* What that Get* returns when it reads the value the call l carried.
GetOfValue(l) ==
    IF l.op = "SetHatButton"
    THEN [d \in DirectionBits |-> Ok(BitAnd(l.value, d) # 0)]
    ELSE Ok(l.value)

\* C1 (mode gating): a Set* call on a registered device and index leaves the
\* value the matching Get* returns unchanged when the engine is configuring,
\* and makes the matching Get* return the value just set when it is not.
C1_ModeGating ==
    [][(last'.op \in SetOps /\ Registered(controller_list, last'))
        => IF configuring
           THEN MatchingGet(controller_list', last')
                    = MatchingGet(controller_list, last')
           ELSE MatchingGet(controller_list', last') = GetOfValue(last')]_vars

\* A SetAxis made while configuring has returned and the registered axis
\* still holds a value other than the one the call carried.
C1_Witness ==
    /\ last.op = "SetAxis" /\ ret.outcome = "ok" /\ configuring
    /\ Registered(controller_list, last)
    /\ GetAxisIn(controller_list, last.identifier, last.index).value # last.value

\* The default each Get* documents for an unknown device or index.
DefaultOf(l) ==
    CASE l.op = "GetButton" -> Ok(FALSE)
      [] l.op = "GetHatButton" -> Ok(FALSE)
      [] l.op = "GetAxis" -> Ok(0)
      [] l.op = "GetBattery" -> Ok("Charging")
      [] l.op = "GetMotion" -> Ok(ZeroMotion)

\* C8 (unknown query defaults): every Get* on a device that is not in the
\* table, or on an index never registered on a known device, returns the
\* default without a fault and leaves the table unchanged.
C8_UnknownQueryDefaults ==
    [][(last'.op \in GetOps /\ ~Registered(controller_list, last'))
        => /\ ret' = DefaultOf(last')
           /\ controller_list' = controller_list]_vars

\* The same for every such query but GetMotion on a known device.
C8_ExceptMotionIndex ==
    [][(/\ last'.op \in GetOps
        /\ ~Registered(controller_list, last')
        /\ ~(last'.op = "GetMotion" /\ KnownDevice(controller_list, last')))
        => /\ ret' = DefaultOf(last')
           /\ controller_list' = controller_list]_vars

\* C10 (idempotent pre-set): a PreSet* on a known device whose index already
\* has an entry leaves the stored value (and all of the table) unchanged, and
\* the same PreSet* made a second time leaves the table as the first left it.
C10_IdempotentPreSet ==
    [][(last'.op \in PreSetOps /\ KnownDevice(controller_list, last'))
        => /\ Registered(controller_list, last')
                => /\ MapOf(controller_list'[last'.identifier], last')[last'.index]
                        = MapOf(controller_list[last'.identifier], last')[last'.index]
                   /\ controller_list' = controller_list
           /\ (last = last' /\ ret.outcome = "ok")
                => controller_list' = controller_list]_vars

\* A PreSetAxis has returned on an axis that holds a value other than the
\* default, written by an earlier SetAxis.
C10_Witness ==
    /\ last.op = "PreSetAxis" /\ ret.outcome = "ok"
    /\ Registered(controller_list, last)
    /\ controller_list[last.identifier].axes[last.index] # 0

\* A Set* of the given kind that returned while configuring with an observer.
Detecting(l, r, op) ==
    /\ l.op = op
    /\ r.outcome = "ok"
    /\ configuring
    /\ mapping_callback # NoObserver

\* |v - stored| for the SetAxis call l, stored being what GetAxis returns.
AxisDelta(cl, l) ==
    LET stored == IF Registered(cl, l) THEN cl[l.identifier].axes[l.index] ELSE 0
    IN  IF l.value >= stored THEN l.value - stored ELSE stored - l.value

AxisEvent(l) ==
    [to |-> mapping_callback,
     data |-> [engine |-> EngineName, pad |-> l.identifier, type |-> "Analog",
               index |-> l.index, axis_value |-> l.value]]

\* C4 as stated (axis detection threshold): while configuring with an
\* observer, SetAxis emits exactly one event carrying v if and only if
\* |v - stored| is strictly greater than 0.5; at 0.5 or less, none.
C4_AxisStrictlyAbove ==
    [][Detecting(last', ret', "SetAxis")
        => events' = IF AxisDelta(controller_list, last') > 4
                     THEN <<AxisEvent(last')>> ELSE <<>>]_vars

\* C4 amended: while configuring with an observer, SetAxis emits exactly one
\* event carrying v if and only if |v - stored| is at least 0.5; below 0.5,
\* none.
C4_AxisAtLeastThreshold ==
    [][Detecting(last', ret', "SetAxis")
        => events' = IF AxisDelta(controller_list, last') >= 4
                     THEN <<AxisEvent(last')>> ELSE <<>>]_vars

\* A SetAxis at a distance of exactly 0.5 from the stored value has emitted.
C4_Witness ==
    /\ Detecting(last, ret, "SetAxis")
    /\ AxisDelta(controller_list, last) = 4
    /\ events = <<AxisEvent(last)>>

\* Whether direction bit d is set in mask m.
BitSet(m, d) == (m \div d) % 2 = 1

\* The direction bits in which the mask of SetHatButton call l differs from
\* the stored mask (no bit is stored set for an index without an entry).
DifferingBits(cl, l) ==
    LET stored == IF Registered(cl, l) THEN cl[l.identifier].hat_buttons[l.index]
                  ELSE 0
    IN  {d \in DirectionBits : BitSet(l.value, d) # BitSet(stored, d)}

\* C5 (hat per-direction detection): while configuring with an observer,
\* SetHatButton emits one event for each of the 8 direction bits that differs
\* between the mask and the stored mask, each naming that direction of that
\* hat, and no other event.
C5_HatPerDirection ==
    [][Detecting(last', ret', "SetHatButton")
        => LET differing == DifferingBits(controller_list, last')
           IN  /\ Len(events') = Cardinality(differing)
               /\ {events'[k].data.hat_direction : k \in 1..Len(events')} = differing
               /\ \A k \in 1..Len(events') :
                    events'[k] =
                      [to |-> mapping_callback,
                       data |-> [engine |-> EngineName, pad |-> last'.identifier,
                                 type |-> "HatButton", index |-> last'.index,
                                 hat_direction |-> events'[k].data.hat_direction]]
          ]_vars

\* A SetHatButton has emitted eight events, the one for bit 128 among them.
C5_Witness ==
    /\ Detecting(last, ret, "SetHatButton")
    /\ Len(events) = 8
    /\ \E k \in 1..8 : events[k].data.hat_direction = 128

\* C6 (button detection): while configuring with an observer, SetButton emits
\* exactly one event carrying v if v differs from the stored value and none
\* if they are equal; the stored value is not overwritten (so a repeated
\* differing SetButton emits again), and an index without an entry is first
\* registered with false as the baseline.
C6_ButtonDetection ==
    [][Detecting(last', ret', "SetButton")
        => LET id == last'.identifier
               b == last'.index
               stored == IF Registered(controller_list, last')
                         THEN controller_list[id].buttons[b] ELSE FALSE
           IN  /\ events' =
                    IF last'.value # stored
                    THEN <<[to |-> mapping_callback,
                            data |-> [engine |-> EngineName, pad |-> id,
                                      type |-> "Button", index |-> b,
                                      button_value |-> last'.value]]>>
                    ELSE <<>>
               /\ b \in DOMAIN controller_list'[id].buttons
               /\ controller_list'[id].buttons[b] = stored]_vars

\* A SetButton(true) made while configuring has emitted its event and the
\* button is still stored false, so that the same call would emit again.
C6_Witness ==
    /\ Detecting(last, ret, "SetButton")
    /\ last.value = TRUE
    /\ Len(events) = 1
    /\ controller_list[last.identifier].buttons[last.index] = FALSE

\* The EngineInputType a Set* call reports to the listeners.
TypeOf(l) ==
    CASE l.op = "SetButton" -> "Button"
      [] l.op = "SetHatButton" -> "HatButton"
      [] l.op = "SetAxis" -> "Analog"
      [] l.op = "SetBattery" -> "Battery"
      [] l.op = "SetMotion" -> "Motion"

\* How often the call that ran last invoked the notifier of subscription k.
Invocations(k) == IF k \in DOMAIN notified THEN notified[k] ELSE 0

\* C3 (listener matching): every Set* call that returns, in either mode and
\* whatever the value, invokes the notifier of each live subscription for its
\* device, kind and index exactly once, and invokes no notifier of a
\* subscription for another device, kind or index.
C3_ListenerMatching ==
    (last.op \in SetOps /\ ret.outcome = "ok")
        => \A k \in DOMAIN callback_list :
             LET sub == callback_list[k]
             IN  Invocations(k) =
                   IF /\ sub.on_change
                      /\ sub.identifier = last.identifier
                      /\ sub.type = TypeOf(last)
                      /\ sub.index = last.index
                   THEN 1 ELSE 0

\* A Set* made while configuring has invoked the notifier of a live
\* subscription for its device, kind and index.
C3_Witness ==
    /\ last.op \in SetOps /\ ret.outcome = "ok" /\ configuring
    /\ \E k \in DOMAIN callback_list :
         callback_list[k].on_change /\ Invocations(k) = 1

\* The one event of the scenario.
ScenarioEvent ==
    [to |-> 1,
     data |-> [engine |-> EngineName, pad |-> PadA, type |-> "Button",
               index |-> 0, button_value |-> TRUE]]

\* The scenario never faults, and at its end the three reads were false,
\* false, true and the observer received exactly the one event.
ScenarioHolds ==
    /\ ~script.fault
    /\ script.pc = 10
         => /\ script.reads = <<FALSE, FALSE, TRUE>>
            /\ script.received = <<ScenarioEvent>>

C7_KeysStrictlyIncrease ==
    \A i, j \in 1..Len(issued) : i < j => issued[i] < issued[j]

\* Three keys were issued, the second has been deleted and the third is live.
C7_Witness ==
    /\ Len(issued) = 3
    /\ issued[2] \notin DOMAIN callback_list
    /\ issued[3] \in DOMAIN callback_list

\* C9 (unknown callback deletion): DeleteCallback of a key that is not in
\* the registry returns normally and leaves the subscriptions, the observer
\* and the next key unchanged; of a live key, it removes that subscription
\* and no other.
C9_DeleteCallback ==
    [][(last'.op = "DeleteCallback")
        => /\ ret' = Void
           /\ mapping_callback' = mapping_callback
           /\ last_callback_key' = last_callback_key
           /\ IF last'.key \notin DOMAIN callback_list
              THEN callback_list' = callback_list
              ELSE /\ DOMAIN callback_list' = DOMAIN callback_list \ {last'.key}
                   /\ \A k \in DOMAIN callback_list' :
                        callback_list'[k] = callback_list[k]]_vars

\* A key never issued has been deleted while a subscription is live and an
\* observer is registered.
C9_Witness ==
    /\ last.op = "DeleteCallback" /\ ret.outcome = "ok"
    /\ \A i \in 1..Len(issued) : issued[i] # last.key
    /\ callback_list # EmptyMap
    /\ mapping_callback # NoObserver

\* Thread t is inside a user-supplied callback: a listener's on_change or
\* the observer's on_data.
InCallback(t) == threads[t].pc \in {"on_change", "on_data"}

\* C11 (no lock held across a callback): while a thread is inside a
\* user-supplied callback, invoked by a Set* it is running, that thread holds
\* neither the table lock nor the registry lock.
C11_NoLockAcrossCallback ==
    \A t \in Threads : InCallback(t) => (mutex # t /\ mutex_callback # t)

\* C13 (the two locks are never nested): no thread holds the table lock and
\* the registry lock at the same time.
C13_NeverNested ==
    \A t \in Threads : ~(mutex = t /\ mutex_callback = t)

\* C14 (mapping events only while configuring): at every invocation of the
\* mapping observer the engine is configuring and the observer invoked is
\* the registered one, also with BeginConfiguration, EndConfiguration and
\* SetMappingCallback running on other threads.
C14_EventsOnlyWhileConfiguring ==
    [][\A t \in Threads :
         (threads[t].pc = "emit" /\ threads'[t].pc = "on_data")
            => (configuring /\ mapping_callback # NoObserver)]_vars

\* C15 (deadlock freedom between threads): with callbacks that return
\* without calling back into the engine, every call a thread has entered -
\* PreSet*, Set*, Get*, SetCallback, DeleteCallback, SetMappingCallback,
\* whatever the other threads are calling - returns, under a scheduler that
\* lets every thread that can step take a step.
C15_EveryCallReturns ==
    \A t \in Threads : InCall(t) ~> (threads[t].pc = "returned")

\* A thread inside a detection holds the registry lock and waits for the
\* table lock, which another thread holds.
C15_Witness ==
    \E t, u \in Threads :
        /\ t # u
        /\ mutex_callback = t
        /\ threads[t].pc \in {"preset_lock", "get_lock"}
        /\ mutex = u

\* C20 (write or detect, never both): no Set* call that changed the table
\* hands a mapping event to the observer, also with BeginConfiguration and
\* EndConfiguration running on other threads.
C20_WriteOrDetect ==
    \A t \in Threads : threads[t].pc = "on_data" => ~threads[t].changed

\* C12 (re-entrant callbacks complete): a call made from inside a callback,
\* on the thread that runs the callback, never waits for a lock that this
\* thread holds itself (which it would wait for without end).
C12_ReentrantCallsComplete ==
    \A t \in Threads : ~SelfLocked(t)

\* C16 (all table accesses are serialized by the table lock): every step of
\* a thread that reads or writes controller_list - the locked blocks of
\* PreSetController, PreSet*, Set* and Get*, and the turns of the loops of
\* ResetButtonState and ResetAnalogState - is taken while that thread holds
\* the table lock.
C16_TableAccessUnderLock ==
    [][\A t \in Threads :
         (threads[t].pc \in {"table", "preset", "get", "reset"}
          /\ threads'[t] # threads[t])
            => mutex = t]_vars

\* The registered entries of table cl that hold values of kind `type`, as
\* device and index.
EntriesOf(cl, type) ==
    {e \in (DOMAIN cl) \X Indexes :
        e[2] \in DOMAIN (CASE type = "Button" -> cl[e[1]].buttons
                           [] type = "HatButton" -> cl[e[1]].hat_buttons
                           [] type = "Analog" -> cl[e[1]].axes)}

\* The Set* calls a reset owes to table cl.
OwedCalls(cl, op) ==
    IF op = "ResetButtonState"
    THEN {[op |-> "SetButton", identifier |-> e[1], index |-> e[2]] :
             e \in EntriesOf(cl, "Button")}
         \cup {[op |-> "SetHatButton", identifier |-> e[1], index |-> e[2]] :
                 e \in EntriesOf(cl, "HatButton")}
    ELSE {[op |-> "SetAxis", identifier |-> e[1], index |-> e[2]] :
             e \in EntriesOf(cl, "Analog")}

\* The elements of a sequence.
Range(seq) == {seq[i] : i \in DOMAIN seq}

\* C17 (reset routes through Set): ResetButtonState makes exactly one
\* SetButton(id, i, false) for every registered button and one
\* SetHatButton(id, i, 0) for every registered hat button of every known
\* device, ResetAnalogState one SetAxis(id, i, 0) for every registered axis;
\* each live listener with a notifier is notified once per entry it matches;
\* when not configuring every such entry holds the neutral value afterwards;
\* motions, batteries and the entries of the other kinds are unchanged.
C17_ResetRoutesThroughSet ==
    [][(last'.op \in ResetCalls)
        => LET owed == OwedCalls(controller_list, last'.op)
           IN  /\ Range(last'.calls) = owed
               /\ Len(last'.calls) = Cardinality(owed)
               /\ ret' = Void
               /\ \A k \in DOMAIN callback_list :
                    (IF k \in DOMAIN notified' THEN notified'[k] ELSE 0)
                      = IF /\ callback_list[k].on_change
                           /\ \E c \in owed :
                                /\ c.identifier = callback_list[k].identifier
                                /\ c.index = callback_list[k].index
                                /\ KindOf(c.op) = callback_list[k].type
                        THEN 1 ELSE 0
               /\ DOMAIN controller_list' = DOMAIN controller_list
               /\ \A id \in DOMAIN controller_list :
                    LET old == controller_list[id]
                        new == controller_list'[id]
                    IN  /\ new.motions = old.motions
                        /\ new.battery = old.battery
                        /\ DOMAIN new.buttons = DOMAIN old.buttons
                        /\ DOMAIN new.hat_buttons = DOMAIN old.hat_buttons
                        /\ DOMAIN new.axes = DOMAIN old.axes
                        /\ IF last'.op = "ResetButtonState"
                           THEN new.axes = old.axes
                           ELSE new.buttons = old.buttons
                                /\ new.hat_buttons = old.hat_buttons
                        /\ ~configuring =>
                             IF last'.op = "ResetButtonState"
                             THEN /\ \A i \in DOMAIN new.buttons :
                                       GetButtonIn(controller_list', id, i) = Ok(FALSE)
                                  /\ \A i \in DOMAIN new.hat_buttons,
                                        d \in DirectionBits :
                                       GetHatButtonIn(controller_list', id, i, d)
                                         = Ok(FALSE)
                             ELSE \A i \in DOMAIN new.axes :
                                    GetAxisIn(controller_list', id, i) = Ok(0)]_vars

\* A ResetButtonState made in Normal mode has reset a pressed button and a
\* hat button and notified a listener of that button.
C17_Witness ==
    /\ last.op = "ResetButtonState" /\ ~configuring
    /\ Len(last.calls) = 2
    /\ \E i \in DOMAIN last.calls : last.calls[i].op = "SetHatButton"
    /\ \E k \in DOMAIN notified : notified[k] = 1

\* The mapping events a reset owes to table cl while configuring: one for
\* each button stored true, one for each set bit of each stored hat mask,
\* one for each axis stored at least the threshold away from 0.
OwedEvents(cl, op, mc) ==
    IF op = "ResetButtonState"
    THEN {OnData(mc, [engine |-> EngineName, pad |-> e[1], type |-> "Button",
                      index |-> e[2], button_value |-> FALSE]) :
             e \in {x \in EntriesOf(cl, "Button") : cl[x[1]].buttons[x[2]]}}
         \cup {OnData(mc, [engine |-> EngineName, pad |-> e[1][1],
                           type |-> "HatButton", index |-> e[1][2],
                           hat_direction |-> e[2]]) :
                 e \in {x \in EntriesOf(cl, "HatButton") \X DirectionBits :
                          (cl[x[1][1]].hat_buttons[x[1][2]] \div x[2]) % 2 = 1}}
    ELSE {OnData(mc, [engine |-> EngineName, pad |-> e[1], type |-> "Analog",
                      index |-> e[2], axis_value |-> 0]) :
             e \in {x \in EntriesOf(cl, "Analog") :
                      \/ cl[x[1]].axes[x[2]] >= 4
                      \/ cl[x[1]].axes[x[2]] <= -4}}

\* C18 (reset during configuring emits detections and clears nothing): a
\* ResetButtonState or ResetAnalogState made while configuring with an
\* observer leaves the table unchanged and emits exactly one mapping event
\* for every button stored true, every set bit of every stored hat mask and
\* every axis stored at least 0.5 away from 0; neutral entries emit nothing.
C18_ResetWhileConfiguring ==
    [][(last'.op \in ResetCalls /\ configuring /\ mapping_callback # NoObserver)
        => LET owed == OwedEvents(controller_list, last'.op, mapping_callback)
           IN  /\ controller_list' = controller_list
               /\ Range(events') = owed
               /\ Len(events') = Cardinality(owed)]_vars

\* A ResetButtonState made while configuring has emitted the events of a
\* pressed button and of the two set bits of a hat mask.
C18_Witness ==
    /\ last.op = "ResetButtonState"
    /\ configuring /\ mapping_callback # NoObserver
    /\ Len(events) = 3

\* The value a PreSet* call registers.
RegisteredValue(l) ==
    CASE l.op = "PreSetButton" -> FALSE
      [] l.op = "PreSetHatButton" -> 0
      [] l.op = "PreSetAxis" -> 0
      [] l.op = "PreSetMotion" -> ZeroMotion

\* The Get* that follows the PreSet* call l reads the default on table cl
\* (for a hat, GetHatButton reads false for every direction).
ReadsDefault(cl, l) ==
    CASE l.op = "PreSetButton" -> GetButtonIn(cl, l.identifier, l.index) = Ok(FALSE)
      [] l.op = "PreSetHatButton" ->
           \A d \in DirectionBits :
               GetHatButtonIn(cl, l.identifier, l.index, d) = Ok(FALSE)
      [] l.op = "PreSetAxis" -> GetAxisIn(cl, l.identifier, l.index) = Ok(0)
      [] l.op = "PreSetMotion" ->
           GetMotionIn(cl, l.identifier, l.index) = Ok(ZeroMotion)

\* After the PreSet* call l, table cl knows the entry and it reads the default.
RegisteredDefault(cl, l) ==
    /\ Registered(cl, l)
    /\ MapOf(cl[l.identifier], l)[l.index] = RegisteredValue(l)
    /\ ReadsDefault(cl, l)

====
